---------------------------- MODULE Spec2Model ----------------------------
(***************************************************************************)
(* A model of the Turing Tumble emulator (src/index.js): the pin topology, *)
(* the board, the gear flood fill, the ball stepper with its step history  *)
(* and exit queue, the timer that drives it, and the buttons that call     *)
(* into them.  Cells hold the one-character symbols of the source.         *)
(***************************************************************************)
EXTENDS Integers, Sequences, FiniteSets, TLC

VARIABLES
    W, H,            \* board width and height, fixed at startup
    board,           \* board[y][x], y in 0..H-1, x in 0..W-1
    ballx, bally,    \* ball position
    velx,            \* horizontal velocity
    color,           \* BLUE or RED
    status,          \* STATUS_*
    velhistory,      \* Step History
    bottommarbles,   \* Exit Queue
    numblue, numred,       \* marbles left on top
    totalblue, totalred,   \* reset baseline
    paused,
    pending,         \* number of window.setTimeout(move) calls not yet fired or cleared
    live,            \* TRUE when timeoutid names one of the pending timeouts
    errors,          \* TRUE once move() has written its 'going out of board' diagnostic
    undoboard2,      \* the board kept for 'restart'
    tool             \* the selected tool

vars == <<W, H, board, ballx, bally, velx, color, status, velhistory,
          bottommarbles, numblue, numred, totalblue, totalred, paused,
          pending, live, errors, undoboard2, tool>>

----------------------------------------------------------------------------
(* Bounds of the model *)

MaxMarbles == 1
MaxHist == 9
MaxBottom == 2
MaxOff == 3
MaxN == 8
MaxTimerBottom == 1
MaxUrlLen == 3
MaxRestartSteps == 3

----------------------------------------------------------------------------
(* Program constants *)

BLUE == 0
RED == 1

STATUS_CRANK == 0
STATUS_ROLLING == 1
STATUS_INTERCEPTED == 2
STATUS_NOBLUE == 3
STATUS_NORED == 4

D == W \div 4

Last(q) == q[Len(q)]
Front(q) == SubSeq(q, 1, Len(q) - 1)

----------------------------------------------------------------------------
(* Grid topology *)

\* a faulty topology whose notch under the top edge is one cell wider
getEmptyWideNotch(x, y) ==
    IF x + y < D THEN " "
    ELSE IF (W - 1 - x) + y < D THEN " "
    ELSE IF x - y - D > 1 /\ (W - x) - D - 1 - y > 1 THEN " "
    ELSE IF 2 * x # W - 1 /\ y >= H - 1 THEN " "
    ELSE IF W = 11 /\ H = 11 /\ (x = 2 \/ x = 8) /\ (y = 3 \/ y = 7) THEN "V"
    ELSE IF x % 2 = y % 2 THEN "." ELSE "v"

\* a faulty topology that cuts the left corner one cell deeper than the right
getEmptyLeftCorner(x, y) ==
    IF x + y < D + 1 THEN " "
    ELSE IF (W - 1 - x) + y < D THEN " "
    ELSE IF x - y - D > 2 /\ (W - x) - D - 1 - y > 2 THEN " "
    ELSE IF 2 * x # W - 1 /\ y >= H - 1 THEN " "
    ELSE IF W = 11 /\ H = 11 /\ (x = 2 \/ x = 8) /\ (y = 3 \/ y = 7) THEN "V"
    ELSE IF x % 2 = y % 2 THEN "." ELSE "v"

getEmpty(x, y) ==
    IF x + y < D THEN " "
    ELSE IF (W - 1 - x) + y < D THEN " "
    ELSE IF x - y - D > 2 /\ (W - x) - D - 1 - y > 2 THEN " "
    ELSE IF 2 * x # W - 1 /\ y >= H - 1 THEN " "
    ELSE IF W = 11 /\ H = 11 /\ (x = 2 \/ x = 8) /\ (y = 3 \/ y = 7) THEN "V"
    ELSE IF x % 2 = y % 2 THEN "." ELSE "v"

emptyBoard ==
    [y \in 0..(H - 1) |-> [x \in 0..(W - 1) |-> getEmpty(x, y)]]

Cells == {<<x, y>> : x \in 0..(W - 1), y \in 0..(H - 1)}

at(b, p) == b[p[2]][p[1]]

\* how the editor and the codecs read getEmpty's answer: " " takes no part,
\* "." takes gears only, the full pins "v" and "V" take every part
cellKind(x, y) ==
    LET e == getEmpty(x, y)
    IN  IF e = " " THEN "OutOfPlay"
        ELSE IF e = "." THEN "GearPin"
        ELSE "FullPin"

isGearSym(c) == c = "}" \/ c = "{" \/ c = "*" \/ c = "+"

----------------------------------------------------------------------------
(* Gear network: flood fill with an explicit stack *)

\* a faulty neighbourhood that looks south a second time instead of north
neighbourNoNorth(p, i) ==
    << (IF i = 0 THEN p[1] + 1 ELSE IF i = 2 THEN p[1] - 1 ELSE p[1]),
       (IF i = 1 \/ i = 3 THEN p[2] + 1 ELSE p[2]) >>

\* the i-th neighbour of the flood fill's inner loop (lines 727-728)
neighbour(p, i) ==
    << (IF i = 0 THEN p[1] + 1 ELSE IF i = 2 THEN p[1] - 1 ELSE p[1]),
       (IF i = 1 THEN p[2] + 1 ELSE IF i = 3 THEN p[2] - 1 ELSE p[2]) >>

\* the for(i = 0; i < 4; i++) loop of the flood fill: r = [stack, seen]
RECURSIVE pushNeighbours(_, _, _, _)
pushNeighbours(b, p, i, r) ==
    IF i >= 4 THEN r
    ELSE LET q == neighbour(p, i)
             skip == \/ q[1] < 0 \/ q[1] >= W \/ q[2] < 0 \/ q[2] >= H
                     \/ ~isGearSym(b[q[2]][q[1]])
                     \/ q \in r.seen
         IN  IF skip THEN pushNeighbours(b, p, i + 1, r)
             ELSE pushNeighbours(b, p, i + 1,
                      [stack |-> Append(r.stack, q), seen |-> r.seen \cup {q}])

\* the while(stack.length > 0) loop: returns the list 'all'
RECURSIVE floodLoop(_, _, _, _)
floodLoop(b, stack, seen, all) ==
    IF Len(stack) = 0 THEN all
    ELSE LET p == Last(stack)
             r == pushNeighbours(b, p, 0,
                      [stack |-> Front(stack), seen |-> seen \cup {p}])
         IN  floodLoop(b, r.stack, r.seen, Append(all, p))

floodFill(b, x0, y0) == floodLoop(b, << <<x0, y0>> >>, {}, <<>>)

\* a faulty flip that never turns a "+" gear back
flipGearOneWay(c) ==
    IF c = "{" THEN "}"
    ELSE IF c = "}" THEN "{"
    ELSE IF c = "*" THEN "+"
    ELSE c

flipGear(c) ==
    IF c = "{" THEN "}"
    ELSE IF c = "}" THEN "{"
    ELSE IF c = "*" THEN "+"
    ELSE IF c = "+" THEN "*"
    ELSE c

setCell(b, x, y, c) == [b EXCEPT ![y][x] = c]

\* a faulty loop that leaves the last listed cell as it was
RECURSIVE flipAllButLast(_, _, _)
flipAllButLast(b, all, i) ==
    IF i >= Len(all) THEN b
    ELSE flipAllButLast(setCell(b, all[i][1], all[i][2], flipGear(b[all[i][2]][all[i][1]])),
                        all, i + 1)

RECURSIVE flipAll(_, _, _)
flipAll(b, all, i) ==
    IF i > Len(all) THEN b
    ELSE flipAll(setCell(b, all[i][1], all[i][2], flipGear(b[all[i][2]][all[i][1]])),
                 all, i + 1)

\* a faulty toggle that turns the seed cell and nothing joined to it
toggleGearSeedOnly(b, x0, y0) == setCell(b, x0, y0, flipGear(b[y0][x0]))

toggleGear(b, x0, y0) == flipAll(b, floodFill(b, x0, y0), 1)

\* a faulty second loop that forgets the orientation it has found
RECURSIVE fixAllForgetful(_, _, _, _)
fixAllForgetful(b, all, i, symbol) ==
    IF i > Len(all) THEN b
    ELSE LET c == b[all[i][2]][all[i][1]]
         IN  IF c = "{" \/ c = "}"
             THEN LET s2 == IF symbol = "x" THEN c ELSE symbol
                  IN  fixAllForgetful(setCell(b, all[i][1], all[i][2], s2), all, i + 1, symbol)
             ELSE fixAllForgetful(b, all, i + 1, symbol)

\* the second loop of fixGearGroup: symbol is "x" until an orientation is known
RECURSIVE fixAll(_, _, _, _)
fixAll(b, all, i, symbol) ==
    IF i > Len(all) THEN b
    ELSE LET c == b[all[i][2]][all[i][1]]
         IN  IF c = "{" \/ c = "}"
             THEN LET s2 == IF symbol = "x" THEN c ELSE symbol
                  IN  fixAll(setCell(b, all[i][1], all[i][2], s2), all, i + 1, s2)
             ELSE fixAll(b, all, i + 1, symbol)

fixGearGroup(b, x0, y0) ==
    LET c0 == b[y0][x0]
        symbol == IF c0 = "{" THEN "{" ELSE IF c0 = "}" THEN "}" ELSE "x"
    IN  fixAll(b, floodFill(b, x0, y0), 1, symbol)

----------------------------------------------------------------------------
(* The simulation session as one record, so that the stepper's functions   *)
(* can be applied and composed as the code calls them.                     *)

Cur ==
    [board |-> board, ballx |-> ballx, bally |-> bally, velx |-> velx,
     color |-> color, status |-> status, velhistory |-> velhistory,
     bottommarbles |-> bottommarbles, numblue |-> numblue, numred |-> numred,
     totalblue |-> totalblue, totalred |-> totalred, paused |-> paused,
     pending |-> pending, live |-> live, errors |-> errors,
     undoboard2 |-> undoboard2, tool |-> tool]

Becomes(s) ==
    /\ board' = s.board /\ ballx' = s.ballx /\ bally' = s.bally
    /\ velx' = s.velx /\ color' = s.color /\ status' = s.status
    /\ velhistory' = s.velhistory /\ bottommarbles' = s.bottommarbles
    /\ numblue' = s.numblue /\ numred' = s.numred
    /\ totalblue' = s.totalblue /\ totalred' = s.totalred
    /\ paused' = s.paused /\ pending' = s.pending /\ live' = s.live
    /\ errors' = s.errors /\ undoboard2' = s.undoboard2 /\ tool' = s.tool
    /\ UNCHANGED <<W, H>>

inBoard(x, y) == x >= 0 /\ x < W /\ y >= 0 /\ y < H

\* window.clearTimeout(timeoutid): cancels the timeout timeoutid names, if
\* it is still scheduled; the variable itself is left as it is
clearTimeout(s) ==
    IF s.live THEN [s EXCEPT !.pending = s.pending - 1, !.live = FALSE] ELSE s

\* timeoutid = window.setTimeout(move, duration)
setTimeout(s) == [s EXCEPT !.pending = s.pending + 1, !.live = TRUE]

----------------------------------------------------------------------------
(* Ball stepper *)

\* move(), lines 805-822: the launch row takes a marble from the reservoir
moveLaunchRow(s) ==
    IF s.bally = -2
    THEN IF s.color = BLUE
         THEN IF s.numblue <= 0
              THEN [st |-> [s EXCEPT !.status = STATUS_NOBLUE], stopped |-> TRUE]
              ELSE [st |-> [s EXCEPT !.numblue = s.numblue - 1], stopped |-> FALSE]
         ELSE IF s.numred <= 0
              THEN [st |-> [s EXCEPT !.status = STATUS_NORED], stopped |-> TRUE]
              ELSE [st |-> [s EXCEPT !.numred = s.numred - 1], stopped |-> FALSE]
    ELSE [st |-> s, stopped |-> FALSE]

\* move(), lines 823-827: clamp at the walls, record the velocity, advance
moveAdvance(s) ==
    LET v1 == IF s.velx > 0 /\ s.ballx = W - 1 THEN 0 ELSE s.velx
        v2 == IF v1 < 0 /\ s.ballx = 0 THEN 0 ELSE v1
    IN  [s EXCEPT !.velx = v2,
                  !.velhistory = Append(s.velhistory, v2),
                  !.ballx = s.ballx + v2,
                  !.bally = s.bally + 1]

\* a faulty exit that takes the next marble out of its reservoir at once
moveExitTakesMarble(s) ==
    LET s1 == [s EXCEPT !.velhistory[Len(s.velhistory)] = (-s.ballx) + s.velx,
                        !.bottommarbles = Append(s.bottommarbles, s.color)]
        newcolor == IF 2 * s1.ballx < W THEN BLUE ELSE RED
        outofmarbles == IF newcolor = BLUE THEN s1.numblue <= 0 ELSE s1.numred <= 0
    IN  IF outofmarbles
        THEN [s1 EXCEPT !.status = IF newcolor = BLUE THEN STATUS_NOBLUE
                                                       ELSE STATUS_NORED]
        ELSE IF 2 * s1.ballx < W
             THEN [s1 EXCEPT !.ballx = D - 1, !.bally = -1 - 1, !.velx = 1,
                             !.color = newcolor, !.numblue = s1.numblue - 1]
             ELSE [s1 EXCEPT !.ballx = W - D - 1 + 1, !.bally = -1 - 1, !.velx = -1,
                             !.color = newcolor, !.numred = s1.numred - 1]

\* move(), lines 828-864: the ball has reached row H+1
moveExit(s) ==
    LET s1 == [s EXCEPT !.velhistory[Len(s.velhistory)] = (-s.ballx) + s.velx,
                        !.bottommarbles = Append(s.bottommarbles, s.color)]
        newcolor == IF 2 * s1.ballx < W THEN BLUE ELSE RED
        outofmarbles == IF newcolor = BLUE THEN s1.numblue <= 0 ELSE s1.numred <= 0
    IN  IF outofmarbles
        THEN [s1 EXCEPT !.status = IF newcolor = BLUE THEN STATUS_NOBLUE
                                                       ELSE STATUS_NORED]
        ELSE IF 2 * s1.ballx < W
             THEN [s1 EXCEPT !.ballx = D - 1, !.bally = -1 - 1, !.velx = 1,
                             !.color = newcolor]
             ELSE [s1 EXCEPT !.ballx = W - D - 1 + 1, !.bally = -1 - 1, !.velx = -1,
                             !.color = newcolor]

\* a faulty stepper whose bits steer the ball but never flip
moveCellBitStuck(s) ==
    LET c == s.board[s.bally][s.ballx]
    IN  IF c = "_"
        THEN [st |-> [s EXCEPT !.status = STATUS_INTERCEPTED], stopped |-> TRUE]
        ELSE [stopped |-> FALSE, st |->
              IF c = "\\" THEN [s EXCEPT !.velx = 1]
              ELSE IF c = "/" THEN [s EXCEPT !.velx = -1]
              ELSE IF c = "(" THEN [s EXCEPT !.velx = 1]
              ELSE IF c = ")" THEN [s EXCEPT !.velx = -1]
              ELSE IF c = "{" \/ c = "}"
                   THEN [s EXCEPT !.velx = IF c = "{" THEN 1 ELSE -1,
                                  !.board = toggleGear(s.board, s.ballx, s.bally)]
              ELSE IF c = "x"
                   THEN IF s.velx = 0
                        THEN [s EXCEPT !.velx = IF s.color = BLUE THEN 1 ELSE -1]
                        ELSE s
              ELSE [s EXCEPT !.velx = 0]]

\* a faulty stepper whose bits send every ball to the right
moveCellBitOneWay(s) ==
    LET c == s.board[s.bally][s.ballx]
    IN  IF c = "_"
        THEN [st |-> [s EXCEPT !.status = STATUS_INTERCEPTED], stopped |-> TRUE]
        ELSE [stopped |-> FALSE, st |->
              IF c = "\\" THEN [s EXCEPT !.velx = 1]
              ELSE IF c = "/" THEN [s EXCEPT !.velx = -1]
              ELSE IF c = "(" THEN [s EXCEPT !.board = setCell(s.board, s.ballx, s.bally, ")"),
                                             !.velx = 1]
              ELSE IF c = ")" THEN [s EXCEPT !.board = setCell(s.board, s.ballx, s.bally, "("),
                                             !.velx = 1]
              ELSE IF c = "{" \/ c = "}"
                   THEN [s EXCEPT !.velx = IF c = "{" THEN 1 ELSE -1,
                                  !.board = toggleGear(s.board, s.ballx, s.bally)]
              ELSE IF c = "x"
                   THEN IF s.velx = 0
                        THEN [s EXCEPT !.velx = IF s.color = BLUE THEN 1 ELSE -1]
                        ELSE s
              ELSE [s EXCEPT !.velx = 0]]

\* a faulty stepper whose crossover sorts every ball by its colour
moveCellCrossoverByColour(s) ==
    LET c == s.board[s.bally][s.ballx]
    IN  IF c = "_"
        THEN [st |-> [s EXCEPT !.status = STATUS_INTERCEPTED], stopped |-> TRUE]
        ELSE [stopped |-> FALSE, st |->
              IF c = "\\" THEN [s EXCEPT !.velx = 1]
              ELSE IF c = "/" THEN [s EXCEPT !.velx = -1]
              ELSE IF c = "(" THEN [s EXCEPT !.board = setCell(s.board, s.ballx, s.bally, ")"),
                                             !.velx = 1]
              ELSE IF c = ")" THEN [s EXCEPT !.board = setCell(s.board, s.ballx, s.bally, "("),
                                             !.velx = -1]
              ELSE IF c = "{" \/ c = "}"
                   THEN [s EXCEPT !.velx = IF c = "{" THEN 1 ELSE -1,
                                  !.board = toggleGear(s.board, s.ballx, s.bally)]
              ELSE IF c = "x"
                   THEN [s EXCEPT !.velx = IF s.color = BLUE THEN 1 ELSE -1]
              ELSE [s EXCEPT !.velx = 0]]

\* move(), lines 875-901: the part in the cell the ball has entered
moveCell(s) ==
    LET c == s.board[s.bally][s.ballx]
    IN  IF c = "_"
        THEN [st |-> [s EXCEPT !.status = STATUS_INTERCEPTED], stopped |-> TRUE]
        ELSE [stopped |-> FALSE, st |->
              IF c = "\\" THEN [s EXCEPT !.velx = 1]
              ELSE IF c = "/" THEN [s EXCEPT !.velx = -1]
              ELSE IF c = "(" THEN [s EXCEPT !.board = setCell(s.board, s.ballx, s.bally, ")"),
                                             !.velx = 1]
              ELSE IF c = ")" THEN [s EXCEPT !.board = setCell(s.board, s.ballx, s.bally, "("),
                                             !.velx = -1]
              ELSE IF c = "{" \/ c = "}"
                   THEN [s EXCEPT !.velx = IF c = "{" THEN 1 ELSE -1,
                                  !.board = toggleGear(s.board, s.ballx, s.bally)]
              ELSE IF c = "x"
                   THEN IF s.velx = 0
                        THEN [s EXCEPT !.velx = IF s.color = BLUE THEN 1 ELSE -1]
                        ELSE s
              ELSE [s EXCEPT !.velx = 0]]

\* a faulty stepper that keeps running below the board
moveLandNeverBelow(s, stopped) ==
    IF s.bally = H + 1 THEN [st |-> moveExit(s), stopped |-> stopped]
    ELSE IF s.bally > H + 1 THEN [st |-> s, stopped |-> stopped]
    ELSE IF s.ballx >= W
         THEN [st |-> [s EXCEPT !.ballx = W - 1, !.velx = 0, !.errors = TRUE],
               stopped |-> stopped]
    ELSE IF s.ballx < 0
         THEN [st |-> [s EXCEPT !.ballx = 0, !.velx = 0, !.errors = TRUE],
               stopped |-> stopped]
    ELSE IF inBoard(s.ballx, s.bally)
         THEN LET r == moveCell(s)
              IN  [st |-> r.st, stopped |-> stopped \/ r.stopped]
    ELSE [st |-> s, stopped |-> stopped]

\* move(), lines 828-901: the chain of cases on the new position
moveLand(s, stopped) ==
    IF s.bally = H + 1 THEN [st |-> moveExit(s), stopped |-> stopped]
    ELSE IF s.bally > H + 1 THEN [st |-> s, stopped |-> TRUE]
    ELSE IF s.ballx >= W
         THEN [st |-> [s EXCEPT !.ballx = W - 1, !.velx = 0, !.errors = TRUE],
               stopped |-> stopped]
    ELSE IF s.ballx < 0
         THEN [st |-> [s EXCEPT !.ballx = 0, !.velx = 0, !.errors = TRUE],
               stopped |-> stopped]
    ELSE IF inBoard(s.ballx, s.bally)
         THEN LET r == moveCell(s)
              IN  [st |-> r.st, stopped |-> stopped \/ r.stopped]
    ELSE [st |-> s, stopped |-> stopped]

\* move(), lines 903-912: status Rolling, and the next tick
moveFinish(s, stopped) ==
    LET s1 == IF s.bally < H + 1 /\ s.bally > -2 /\ ~stopped /\ s.status # STATUS_ROLLING
              THEN [s EXCEPT !.status = STATUS_ROLLING] ELSE s
    IN  IF ~s1.paused /\ ~stopped THEN setTimeout(s1) ELSE s1

move(s) ==
    LET a == moveLaunchRow([s EXCEPT !.live = FALSE])
        b == moveLand(moveAdvance(a.st), a.stopped)
    IN  moveFinish(b.st, b.stopped)

\* backwards(), lines 945-951
backwardsPop(s) ==
    LET v == Last(s.velhistory)
        s1 == [s EXCEPT !.velx = v, !.velhistory = Front(s.velhistory),
                        !.ballx = s.ballx - v, !.bally = s.bally - 1]
    IN  IF s1.bally = -2
        THEN IF s1.color # BLUE THEN [s1 EXCEPT !.numred = s1.numred + 1]
                                ELSE [s1 EXCEPT !.numblue = s1.numblue + 1]
        ELSE s1

\* a faulty undo that also turns the ramp the ball stands on
backwardsCellTurnsRamps(s) ==
    LET c == s.board[s.bally][s.ballx]
    IN  IF c = "(" THEN [s EXCEPT !.board = setCell(s.board, s.ballx, s.bally, ")")]
        ELSE IF c = ")" THEN [s EXCEPT !.board = setCell(s.board, s.ballx, s.bally, "(")]
        ELSE IF c = "/" THEN [s EXCEPT !.board = setCell(s.board, s.ballx, s.bally, "\\")]
        ELSE IF c = "{" \/ c = "}"
             THEN [s EXCEPT !.board = toggleGear(s.board, s.ballx, s.bally)]
        ELSE s

\* backwards(), lines 935-944: undo what the part in the ball's cell did
backwardsCell(s) ==
    LET c == s.board[s.bally][s.ballx]
    IN  IF c = "(" THEN [s EXCEPT !.board = setCell(s.board, s.ballx, s.bally, ")")]
        ELSE IF c = ")" THEN [s EXCEPT !.board = setCell(s.board, s.ballx, s.bally, "(")]
        ELSE IF c = "{" \/ c = "}"
             THEN [s EXCEPT !.board = toggleGear(s.board, s.ballx, s.bally)]
        ELSE s

backwards(s) ==
    IF Len(s.velhistory) = 0 THEN s
    ELSE LET s1 == IF s.status # STATUS_ROLLING
                   THEN [s EXCEPT !.status = STATUS_ROLLING] ELSE s
         IN  IF s1.bally = -2
             THEN IF Len(s1.bottommarbles) = 0 THEN s1
                  ELSE backwardsPop([s1 EXCEPT !.bally = H + 1, !.ballx = 0,
                                       !.color = Last(s1.bottommarbles),
                                       !.bottommarbles = Front(s1.bottommarbles)])
             ELSE IF s1.bally > H + 1
             THEN IF Len(s1.bottommarbles) = 0 THEN s1
                  ELSE backwardsPop([s1 EXCEPT !.ballx = 0,
                                       !.color = Last(s1.bottommarbles),
                                       !.bottommarbles = Front(s1.bottommarbles)])
             ELSE IF inBoard(s1.ballx, s1.bally) THEN backwardsPop(backwardsCell(s1))
             ELSE backwardsPop(s1)

\* a faulty removal that leaves the scheduled tick in the browser's queue
removeBallKeepsTick(s) ==
    [s EXCEPT !.live = FALSE, !.ballx = D - 1, !.bally = H + 2, !.velx = 1,
              !.color = BLUE, !.velhistory = <<>>, !.status = STATUS_CRANK]

\* removeBall(), lines 522-536
removeBall(s) ==
    [clearTimeout(s) EXCEPT !.ballx = D - 1, !.bally = H + 2, !.velx = 1,
                            !.color = BLUE, !.velhistory = <<>>,
                            !.status = STATUS_CRANK]

reset(s) ==
    [removeBall([s EXCEPT !.numblue = s.totalblue, !.numred = s.totalred])
        EXCEPT !.bottommarbles = <<>>]

\* b.length for a board (rows 0..H-1) or for the empty array
rowCount(b) == Cardinality(DOMAIN b)

undo2(s) ==
    IF rowCount(s.undoboard2) # H THEN s
    ELSE [s EXCEPT !.board = s.undoboard2, !.undoboard2 = s.board]

cannotContinue(s) ==
    \/ s.color = RED /\ s.numred = 0 /\ s.bally < -1
    \/ s.color = BLUE /\ s.numblue = 0 /\ s.bally < -1
    \/ inBoard(s.ballx, s.bally) /\ s.board[s.bally][s.ballx] = "_"

continueFromPause(s, withinitialtimeout) ==
    LET s1 == [s EXCEPT !.paused = FALSE]
    IN  IF cannotContinue(s1) THEN s1
        ELSE IF withinitialtimeout THEN setTimeout(clearTimeout(s1))
        ELSE move(s1)

\* a faulty placement that keeps the step history of the previous ball
crankLeverPlaceKeepsHistory(s, leverColor) ==
    LET s2 == IF s.numred = s.totalred /\ s.numblue = s.totalblue
              THEN [s EXCEPT !.undoboard2 = s.board] ELSE s
        s3 == clearTimeout(s2)
    IN  [s3 EXCEPT !.ballx = IF leverColor = BLUE THEN D - 1 ELSE W - D - 1 + 1,
                   !.velx = IF leverColor = BLUE THEN 1 ELSE -1,
                   !.bally = -1 - 1,
                   !.color = leverColor]

\* crankLever(), lines 1205-1220: the new ball on its launch ramp
crankLeverPlace(s, leverColor) ==
    LET s1 == [s EXCEPT !.velhistory = <<>>]
        s2 == IF s1.numred = s1.totalred /\ s1.numblue = s1.totalblue
              THEN [s1 EXCEPT !.undoboard2 = s1.board] ELSE s1
        s3 == clearTimeout(s2)
    IN  [s3 EXCEPT !.ballx = IF leverColor = BLUE THEN D - 1 ELSE W - D - 1 + 1,
                   !.velx = IF leverColor = BLUE THEN 1 ELSE -1,
                   !.bally = -1 - 1,
                   !.color = leverColor]

\* a faulty lever that does not look at the reservoir
crankLeverUnguarded(s, leverColor) == move(crankLeverPlace(s, leverColor))

crankLever(s, leverColor) ==
    IF leverColor = BLUE /\ s.numblue <= 0 THEN s
    ELSE IF leverColor = RED /\ s.numred <= 0 THEN s
    ELSE move(crankLeverPlace(s, leverColor))

\* activateTool(), lines 1604-1622: the marble tools put the ball at (x, y)
activateToolBall(s, x, y) ==
    LET v == IF y < 0 THEN (IF 2 * x < W THEN "\\" ELSE "/") ELSE s.board[y][x]
        vx == IF v = "/" \/ v = "(" \/ v = "{" THEN -1
              ELSE IF v = "\\" \/ v = ")" \/ v = "}" THEN 1
              ELSE IF v = "x" THEN (IF s.velx = 0 THEN 1 ELSE s.velx)
              ELSE 0
        s1 == [s EXCEPT !.ballx = x, !.bally = y,
                        !.color = IF s.tool = "o" THEN BLUE ELSE RED,
                        !.velx = vx, !.velhistory = <<>>,
                        !.status = IF v = "_" THEN STATUS_INTERCEPTED
                                              ELSE STATUS_ROLLING]
    IN  IF ~s1.paused THEN continueFromPause(clearTimeout(s1), TRUE) ELSE s1

\* activateTool(), lines 1640-1647: place the part v on the pin at (x, y)
activateToolPlace(s, x, y, b, v0) ==
    LET e == getEmpty(x, y)
        v == IF b = v0 THEN e ELSE v0
        placed == [s EXCEPT !.board = setCell(s.board, x, y, IF v = "v" THEN e ELSE v)]
    IN  IF e = " " THEN s
        ELSE IF (e = "." \/ e = " ")
                /\ v0 # "*" /\ v0 # "+" /\ v0 # " " /\ v0 # "." /\ v0 # "v" THEN s
        ELSE IF v = "+" \/ v = "*" \/ v = "{" \/ v = "}"
             THEN [placed EXCEPT !.board = fixGearGroup(placed.board, x, y)]
        ELSE placed

activateTool(s, x, y) ==
    IF s.tool = "o" \/ s.tool = "O" THEN activateToolBall(s, x, y)
    ELSE IF ~inBoard(x, y) THEN s
    ELSE LET b0 == s.board[y][x]
             b == IF b0 = "+" THEN "*" ELSE IF b0 = "%" THEN "\\" ELSE b0
         IN  IF s.tool = "h"
             THEN IF b = "/" THEN activateToolPlace(s, x, y, b, "\\")
                  ELSE IF b = "\\" THEN activateToolPlace(s, x, y, b, "/")
                  ELSE IF b = "(" THEN activateToolPlace(s, x, y, b, ")")
                  ELSE IF b = ")" THEN activateToolPlace(s, x, y, b, "(")
                  ELSE IF b = "{" \/ b = "}" \/ b = "+" \/ b = "*"
                       THEN [s EXCEPT !.board = toggleGear(s.board, x, y)]
                  ELSE s
             ELSE activateToolPlace(s, x, y, b, s.tool)

selectTool(s, t) == [s EXCEPT !.tool = t]

\* the tool buttons, lines 1403-1417
Tools == {"h", "v", "o", "O", "/", "\\", "x", "_", "(", ")", "{", "}", "*"}

\* a faulty drag that does not ask which parts the pin takes
dragEnterAnyPin(s, x, y) ==
    LET v == s.tool
        e == getEmpty(x, y)
    IN  IF s.tool = "h" \/ s.tool = "o" \/ s.tool = "O" THEN s
        ELSE IF e = " " THEN s
        ELSE [s EXCEPT !.board = setCell(s.board, x, y, IF v = "v" THEN e ELSE v)]

\* onmouseenter with the button held: dragging a tool over the cell (x, y)
dragEnter(s, x, y) ==
    LET v == s.tool
        e == getEmpty(x, y)
    IN  IF s.tool = "h" \/ s.tool = "o" \/ s.tool = "O" THEN s
        ELSE IF e = " " THEN s
        ELSE IF (e = "." \/ e = " ")
                /\ v # "*" /\ v # "+" /\ v # " " /\ v # "." /\ v # "v" THEN s
        ELSE [s EXCEPT !.board = setCell(s.board, x, y, IF v = "v" THEN e ELSE v)]

\* onclick: on a gear-only pin the gear-bit tools toggle a gear and the
\* other part tools take a gear away
gearPinClick(s, x, y) ==
    LET e == getEmpty(x, y)
        isgear == s.board[y][x] = "*" \/ s.board[y][x] = "+"
    IN  IF e = "." /\ (s.tool = "{" \/ s.tool = "}")
        THEN [s EXCEPT !.board = setCell(s.board, x, y, IF isgear THEN "." ELSE "*")]
        ELSE IF e = "." /\ s.tool \in {"(", ")", "_", "/", "\\", "x"} /\ isgear
        THEN [s EXCEPT !.board = setCell(s.board, x, y, ".")]
        ELSE s

\* a left click on the cell: onmousedown runs activateTool, then onclick
leftClick(s, x, y) == gearPinClick(activateTool(s, x, y), x, y)

\* the erase button
eraseButton(s) == reset([s EXCEPT !.board = emptyBoard])

----------------------------------------------------------------------------
(* Codecs.  A text is a sequence of one-character strings.  A url and a    *)
(* stored state are kept as the parts between their separators ('_' and    *)
(* ','), with a number standing for its decimal text.                      *)

\* s[spos], undefined past the end (positions count from 1 here)
textAt(s, spos) == IF spos >= 1 /\ spos <= Len(s) THEN s[spos] ELSE "undefined"

RECURSIVE saveRow(_, _, _)
saveRow(b, y, x) ==
    IF x >= W THEN <<"\n">> ELSE <<b[y][x]>> \o saveRow(b, y, x + 1)

RECURSIVE saveRows(_, _)
saveRows(b, y) == IF y >= H THEN <<>> ELSE saveRow(b, y, 0) \o saveRows(b, y + 1)

saveToText(b) == saveRows(b, 0)

\* a faulty reader that does not skip the line breaks
skipControlNever(s, spos) == spos

\* while(s.charCodeAt(spos) < 32) spos++: the line break is the only
\* control character of these texts
RECURSIVE skipControl(_, _)
skipControl(s, spos) ==
    IF textAt(s, spos) = "\n" THEN skipControl(s, spos + 1) ELSE spos

loadCell(c, x, y) ==
    IF c = " " \/ c = "." \/ c = "v" \/ c = "V" THEN getEmpty(x, y)
    ELSE IF c = "%" THEN "\\"
    ELSE c

\* the rows from y on, read from position spos
RECURSIVE loadRows(_, _, _)
loadRows(s, y, spos) ==
    IF y >= H THEN <<>>
    ELSE LET start == skipControl(s, spos)
         IN  << [x \in 0..(W - 1) |-> loadCell(textAt(s, start + x), x, y)] >>
             \o loadRows(s, y + 1, start + W)

nullBoard == <<>>

loadFromText(s) ==
    IF s = <<>> THEN nullBoard
    ELSE LET rows == loadRows(s, 0, 1)
         IN  [y \in 0..(H - 1) |-> rows[y + 1]]

\* text.replace of a run of n 'e' by the character c, from position i on
RECURSIVE packRuns(_, _, _, _)
packRuns(s, i, n, c) ==
    IF i > Len(s) THEN <<>>
    ELSE IF i + n - 1 <= Len(s) /\ \A j \in i..(i + n - 1) : s[j] = "e"
         THEN <<c>> \o packRuns(s, i + n, n, c)
         ELSE <<s[i]>> \o packRuns(s, i + 1, n, c)

\* a faulty expansion that writes one 'e' too few
RECURSIVE unpackRunsShort(_, _, _, _)
unpackRunsShort(s, i, n, c) ==
    IF i > Len(s) THEN <<>>
    ELSE (IF s[i] = c THEN [j \in 1..(n - 1) |-> "e"] ELSE <<s[i]>>)
         \o unpackRunsShort(s, i + 1, n, c)

\* text.replace of the character c by a run of n 'e'
RECURSIVE unpackRuns(_, _, _, _)
unpackRuns(s, i, n, c) ==
    IF i > Len(s) THEN <<>>
    ELSE (IF s[i] = c THEN [j \in 1..n |-> "e"] ELSE <<s[i]>>)
         \o unpackRuns(s, i + 1, n, c)

urlChar(c) ==
    IF c = "\\" THEN "r"
    ELSE IF c = "/" THEN "l"
    ELSE IF c = "_" THEN "i"
    ELSE IF c = "x" THEN "x"
    ELSE IF c = "(" THEN "0"
    ELSE IF c = ")" THEN "1"
    ELSE IF c = "{" THEN "a"
    ELSE IF c = "}" THEN "b"
    ELSE IF c = "*" THEN "c"
    ELSE IF c = "+" THEN "c"
    ELSE "e"

\* a faulty encoder that takes the marked pins "V" for gear-only pins
RECURSIVE toUrlCellsMarkedGearOnly(_, _)
toUrlCellsMarkedGearOnly(b, i) ==
    IF i >= W * H THEN <<>>
    ELSE LET x == i % W
             y == i \div W
             e == getEmpty(x, y)
             c == b[y][x]
         IN  (IF e = " " THEN <<>>
              ELSE IF e = "." \/ e = "V"
                   THEN (IF c = "*" \/ c = "+" THEN <<"g">> ELSE <<>>)
              ELSE <<urlChar(c)>>)
             \o toUrlCellsMarkedGearOnly(b, i + 1)

\* the double loop of toUrl, cell i = y * W + x
RECURSIVE toUrlCells(_, _)
toUrlCells(b, i) ==
    IF i >= W * H THEN <<>>
    ELSE LET x == i % W
             y == i \div W
             e == getEmpty(x, y)
             c == b[y][x]
         IN  (IF e = " " THEN <<>>
              ELSE IF e = "." THEN (IF c = "*" \/ c = "+" THEN <<"g">> ELSE <<>>)
              ELSE <<urlChar(c)>>)
             \o toUrlCells(b, i + 1)

toUrl(s) ==
    LET result == packRuns(packRuns(toUrlCells(s.board, 0), 1, 9, "z"), 1, 3, "f")
    IN  IF s.numblue # 20 \/ s.numred # 20
        THEN <<result, s.numblue, s.numred>>
        ELSE <<result>>

partChar(c, x, y) ==
    IF c = "r" THEN "\\"
    ELSE IF c = "l" THEN "/"
    ELSE IF c = "i" THEN "_"
    ELSE IF c = "x" THEN "x"
    ELSE IF c = "0" THEN "("
    ELSE IF c = "1" THEN ")"
    ELSE IF c = "a" THEN "{"
    ELSE IF c = "b" THEN "}"
    ELSE IF c = "c" THEN "*"
    ELSE getEmpty(x, y)

\* the double loop of loadFromUrl from cell i = y * W + x on, reading from
\* position spos: the symbols it stores, in the order of the cells
RECURSIVE loadUrlCells(_, _, _)
loadUrlCells(s, i, spos) ==
    IF i >= W * H THEN <<>>
    ELSE LET x == i % W
             y == i \div W
             e == getEmpty(x, y)
             c == textAt(s, spos)
         IN  IF e = " " THEN <<e>> \o loadUrlCells(s, i + 1, spos)
             ELSE IF e = "." /\ c = "g" THEN <<"*">> \o loadUrlCells(s, i + 1, spos + 1)
             ELSE IF e = "." THEN <<e>> \o loadUrlCells(s, i + 1, spos)
             ELSE <<partChar(c, x, y)>> \o loadUrlCells(s, i + 1, spos + 1)

loadFromUrl(s, url) ==
    LET nb == IF Len(url) > 1 THEN url[2] ELSE 20
        nr == IF Len(url) > 2 THEN url[3] ELSE 20
        code == unpackRuns(unpackRuns(url[1], 1, 3, "f"), 1, 9, "z")
        cells == loadUrlCells(code, 0, 1)
    IN  [s EXCEPT !.numblue = nb, !.numred = nr, !.totalblue = nb, !.totalred = nr,
                  !.board = [y \in 0..(H - 1) |-> [x \in 0..(W - 1) |->
                                cells[y * W + x + 1]]]]

----------------------------------------------------------------------------
(* Button and timer handlers *)

\* the timer fires: the timeout leaves the browser's queue and move() runs
timerFires(s) == move([s EXCEPT !.pending = s.pending - 1])

stepButton(s) ==
    IF cannotContinue(s) THEN s
    ELSE clearTimeout(move(clearTimeout([s EXCEPT !.paused = TRUE])))

backstepButton(s) ==
    clearTimeout(backwards(clearTimeout([s EXCEPT !.paused = TRUE])))

\* a faulty pause that leaves the scheduled tick in the browser's queue
pauseButtonKeepsTick(s) ==
    IF ~s.paused THEN [s EXCEPT !.paused = TRUE, !.live = FALSE]
    ELSE move([s EXCEPT !.paused = FALSE])

\* the pause button, lines 1107-1119
pauseButton(s) ==
    IF ~s.paused THEN clearTimeout([s EXCEPT !.paused = TRUE])
    ELSE move([s EXCEPT !.paused = FALSE])

\* the step duration itself plays no part in an untimed model
setTimeSpeed(s) == continueFromPause(clearTimeout(s), FALSE)

restartButton(s) == undo2(reset(s))

setMarblesDefault(s, num) ==
    [s EXCEPT !.numblue = num, !.numred = num, !.totalblue = num, !.totalred = num]

\* parseState(text), with text.split(',') given as the sequence of fields;
\* ok is the value returned
parseState(s, fields) ==
    IF Len(fields) # 4 THEN [ok |-> FALSE, st |-> s]
    ELSE IF fields[1] # W \/ fields[2] # H THEN [ok |-> FALSE, st |-> s]
    ELSE LET s1 == [s EXCEPT !.board = loadFromText(fields[4])]
         IN  IF s1.board = nullBoard THEN [ok |-> FALSE, st |-> s1]
             ELSE [ok |-> TRUE, st |-> setMarblesDefault(s1, fields[3])]

\* the page opened with ?board=url: the variables as declared, the board and
\* the reservoirs from the url, the ball below the board (lines 1716-1721)
startFromUrl(s, url) ==
    LET fresh == [s EXCEPT !.ballx = D - 1, !.velx = 1, !.color = BLUE,
                           !.status = STATUS_CRANK, !.velhistory = <<>>,
                           !.bottommarbles = <<>>, !.paused = FALSE,
                           !.pending = 0, !.live = FALSE, !.errors = FALSE,
                           !.undoboard2 = <<>>, !.tool = "h"]
    IN  [loadFromUrl(fresh, url) EXCEPT !.bally = H + 2]

----------------------------------------------------------------------------
(* Boards the program starts from.  A layout is a set of <<x, y, symbol>>  *)
(* placed on the empty board, as the URL loader does at startup.           *)

boardWith(layout) ==
    [y \in 0..(H - 1) |-> [x \in 0..(W - 1) |->
        IF \E p \in layout : p[1] = x /\ p[2] = y
        THEN (CHOOSE p \in layout : p[1] = x /\ p[2] = y)[3]
        ELSE getEmpty(x, y)]]

FullPinParts == {"\\", "/", "(", ")", "{", "}", "x", "_", "*"}

\* one part on the first pin a blue marble meets
SingleLayouts == {{}} \cup {{<<3, 0, c>>} : c \in FullPinParts}

\* two gear bits joined by a gear on the gear-only pin between them
GearLayouts ==
    {{<<3, 0, a>>, <<4, 0, "*">>, <<4, 1, b>>} : a \in {"{", "}"}, b \in {"{", "}"}}

\* ramps leading to the left wall, to the right wall, to the exit column, and
\* a red marble led to the blue side
PathLayouts ==
    { {<<3, 0, "/">>, <<2, 1, ")">>, <<1, 2, "/">>, <<0, 3, "/">>},
      {<<7, 0, "\\">>, <<8, 1, "\\">>, <<9, 2, "\\">>, <<10, 3, "\\">>},
      {<<7, 0, "/">>, <<6, 1, "/">>, <<5, 2, "x">>, <<3, 2, "x">>},
      {<<7, 0, "/">>, <<6, 1, "/">>, <<5, 2, "_">>} }
    \cup { {<<3, 0, "\\">>, <<4, 1, "\\">>, <<5, 2, "(">>, <<5, 4, e>>} :
              e \in {"\\", "/"} }

StepperLayouts == SingleLayouts \cup GearLayouts \cup PathLayouts

InitSession(layouts) ==
    /\ board \in {boardWith(l) : l \in layouts}
    /\ ballx = D - 1 /\ bally = H + 2 /\ velx = 1 /\ color = BLUE
    /\ status = STATUS_CRANK
    /\ velhistory = <<>> /\ bottommarbles = <<>>
    /\ numblue \in 0..MaxMarbles /\ numred = numblue
    /\ totalblue = numblue /\ totalred = numred
    /\ paused = FALSE /\ pending = 0 /\ live = FALSE /\ errors = FALSE
    /\ undoboard2 = <<>>
    /\ tool = "h"

\* a few boards for the runs in which every button takes part
ButtonLayouts ==
    { {<<3, 0, "(">>, <<7, 0, "_">>},
      {<<3, 0, "{">>, <<4, 0, "*">>, <<4, 1, "{">>, <<7, 0, "/">>, <<6, 1, "/">>} }

InitStepper ==
    /\ W = 11 /\ H = 5
    /\ InitSession(StepperLayouts)

Init ==
    /\ W = 11 /\ H = 5
    /\ InitSession(ButtonLayouts)

----------------------------------------------------------------------------
(* Actions *)

\* the step history, the exit queue and (once a backstep has restored a
\* velocity recorded at the exit row) the ball's x can grow without limit: a
\* handler is taken only while its result stays within the bounds of the model
Do(s) ==
    /\ Len(s.velhistory) <= MaxHist
    /\ Len(s.bottommarbles) <= MaxBottom
    /\ s.ballx >= -MaxOff /\ s.ballx <= W - 1 + MaxOff
    /\ Becomes(s)

Lever == \E c \in {BLUE, RED} : Do(crankLever(Cur, c))

Tick == pending > 0 /\ Do(timerFires(Cur))

StepButton == Do(stepButton(Cur))

BackstepButton == Do(backstepButton(Cur))

StopButton == Do(removeBall(Cur))

ResetButton == Do(reset(Cur))

PauseButton == Do(pauseButton(Cur))

SpeedButton == Do(setTimeSpeed(Cur))

RestartButton == Do(restartButton(Cur))

\* the '0' button above the board
Marbles0Button == Do(setMarblesDefault(Cur, 0))

NextStepper ==
    \/ Lever
    \/ Tick
    \/ StepButton
    \/ BackstepButton
    \/ StopButton
    \/ ResetButton

SpecStepper == InitStepper /\ [][NextStepper]_vars

Next ==
    \/ NextStepper
    \/ PauseButton
    \/ SpeedButton
    \/ RestartButton
    \/ Marbles0Button

Spec == Init /\ [][Next]_vars

----------------------------------------------------------------------------
(* Editing gears: the hand tool and the gear tools on a patch of the board *)

GearTools == {"h", "{", "}", "*"}

EditArea == {<<x, y>> : x \in 3..4, y \in 0..2}

\* boards as the URL loader leaves them: gear bits may disagree within a group
GearStartLayouts ==
    { l \cup {<<7, 0, "{">>, <<8, 0, "*">>} :
        l \in { {},
                {<<3, 0, "{">>, <<4, 0, "*">>, <<4, 1, "}">>},
                {<<3, 0, "}">>, <<3, 1, "*">>, <<3, 2, "}">>, <<4, 2, "*">>} } }

InitGear ==
    /\ W = 11 /\ H = 5
    /\ InitSession(GearStartLayouts)
    /\ numblue = MaxMarbles

SelectTool == \E t \in GearTools : Do(selectTool(Cur, t))

ActivateTool == \E p \in EditArea : Do(activateTool(Cur, p[1], p[2]))

NextGear ==
    \/ SelectTool
    \/ ActivateTool

SpecGear == InitGear /\ [][NextGear]_vars

----------------------------------------------------------------------------
(* Editing with the part tools, on boards of several sizes *)

\* W is forced to 3 mod 4 and H to an odd number (lines 166-179)
Widths == {3, 7, 11, 15}

Heights == {1, 3, 5, 11}

EditTools == {"h", "v", "/", "{", "*"}

\* the pins the pointer visits: two columns next to the blue ramp, two rows
EditPatch == {p \in Cells : p[1] >= D + 1 /\ p[1] <= D + 2 /\ p[2] <= 1}

InitSizes ==
    /\ W \in Widths /\ H \in Heights
    /\ InitSession({{}})
    /\ numblue = MaxMarbles

InitEdit ==
    /\ W \in {7, 11}
    /\ H \in {3, 5}
    /\ InitSession({{}})
    /\ numblue = MaxMarbles

SelectEditTool == \E t \in EditTools : Do(selectTool(Cur, t))

MouseDown == \E p \in EditPatch : Do(activateTool(Cur, p[1], p[2]))

LeftClick == \E p \in EditPatch : Do(leftClick(Cur, p[1], p[2]))

DragEnter == \E p \in EditPatch : Do(dragEnter(Cur, p[1], p[2]))

EraseButton == Do(eraseButton(Cur))

NextEdit ==
    \/ SelectEditTool
    \/ MouseDown
    \/ LeftClick
    \/ DragEnter
    \/ EraseButton

SpecSizes == InitSizes /\ [][NextEdit]_vars

SpecEdit == InitEdit /\ [][NextEdit]_vars

----------------------------------------------------------------------------
(* Editing, and opening the board again from its share url *)

\* every part on a full pin away from the patch, and gears beyond the notch
CodecLayouts ==
    { {},
      {<<6, 0, "*">>, <<7, 0, "{">>},
      {<<7, 0, "\\">>, <<6, 1, "(">>, <<8, 1, ")">>, <<5, 2, "x">>, <<7, 2, "_">>,
       <<3, 2, "}">>, <<6, 2, "+">>, <<4, 3, "/">>} }

InitCodec ==
    /\ W = 11 /\ H = 5
    /\ InitSession(CodecLayouts)
    /\ numblue = MaxMarbles

\* the url button's link, followed
OpenShareUrl == Do(startFromUrl(Cur, toUrl(Cur)))

NextCodec ==
    \/ NextEdit
    \/ OpenShareUrl

SpecCodec == InitCodec /\ [][NextCodec]_vars

----------------------------------------------------------------------------
(* Every control of the simulation, and marbles put on the board by hand *)

BallTools == {"o", "O"}

\* the cells a marble is dropped on: a part, an interceptor or ramp, a free pin
BallSpots == {<<3, 0>>, <<7, 0>>, <<5, 2>>}

SelectBallTool == \E t \in BallTools : Do(selectTool(Cur, t))

PlaceBall ==
    /\ tool \in BallTools
    /\ \E p \in BallSpots : Do(activateTool(Cur, p[1], p[2]))

\* marbles put on the board by hand lengthen the exit queue without limit
ShortQueue == Len(bottommarbles') <= MaxTimerBottom

NextTimer ==
    \/ Lever /\ ShortQueue
    \/ Tick /\ ShortQueue
    \/ StepButton /\ ShortQueue
    \/ BackstepButton /\ ShortQueue
    \/ StopButton /\ ShortQueue
    \/ PauseButton /\ ShortQueue
    \/ SpeedButton /\ ShortQueue
    \/ SelectBallTool /\ ShortQueue
    \/ PlaceBall /\ ShortQueue

InitTimer ==
    /\ W = 11 /\ H = 5
    /\ InitSession({{<<3, 0, "(">>, <<7, 0, "_">>}})
    /\ numblue = MaxMarbles

SpecTimer == InitTimer /\ [][NextTimer]_vars

----------------------------------------------------------------------------
(* Marbles rolling over boards that hold every kind of part *)

\* bits, ramps, a crossover and an interceptor; gear groups, a gear group
\* and a lone gear away from them; crossovers under a straight fall
PartLayouts ==
    { {<<3, 0, "(">>, <<4, 1, "/">>, <<2, 1, "\\">>, <<7, 0, ")">>, <<6, 1, "x">>,
       <<8, 1, "_">>},
      {<<3, 0, "{">>, <<3, 1, "*">>, <<4, 1, "{">>, <<3, 2, "x">>,
       <<7, 0, "}">>, <<8, 0, "*">>, <<5, 2, "*">>},
      {<<3, 2, "x">>, <<7, 0, "/">>, <<6, 1, "\\">>, <<7, 2, "x">>} }

InitParts ==
    /\ W = 11 /\ H = 5
    /\ InitSession(PartLayouts)

SpecParts == InitParts /\ [][NextStepper]_vars

----------------------------------------------------------------------------
(* A small board, on which a marble is out after a few steps *)

\* on this width the marbles land on gear-only pins and meet a part a row lower
SmallLayouts == {{}, {<<2, 1, "(">>, <<4, 1, "/">>}}

InitSmall ==
    /\ W = 7 /\ H = 3
    /\ InitSession(SmallLayouts)

SpecSmall == InitSmall /\ [][NextStepper]_vars

----------------------------------------------------------------------------
(* Editing the four marked pins of the 11 x 11 board *)

\* the coordinates getEmpty answers "V" for (line 403)
MarkedPins == {<<2, 3>>, <<8, 3>>, <<2, 7>>, <<8, 7>>}

InitMarked ==
    /\ W = 11 /\ H = 11
    /\ InitSession({{}})
    /\ numblue = MaxMarbles

\* the two of them the pointer visits
VisitedPins == {<<2, 3>>, <<8, 7>>}

MouseDownMarked == \E p \in VisitedPins : Do(activateTool(Cur, p[1], p[2]))

LeftClickMarked == \E p \in VisitedPins : Do(leftClick(Cur, p[1], p[2]))

DragEnterMarked == \E p \in VisitedPins : Do(dragEnter(Cur, p[1], p[2]))

NextMarked ==
    \/ SelectEditTool
    \/ MouseDownMarked
    \/ LeftClickMarked
    \/ DragEnterMarked

SpecMarked == InitMarked /\ [][NextMarked]_vars

----------------------------------------------------------------------------
(* Pages opened with a board code in the address *)

\* the two run-length letters, a part, a gear on a gear-only pin, and a
\* letter of no alphabet
UrlLetters == {"z", "f", "l", "g", "q"}

RECURSIVE SeqsUpTo(_, _)
SeqsUpTo(S, n) ==
    IF n = 0 THEN {<<>>}
    ELSE LET shorter == SeqsUpTo(S, n - 1)
         IN  shorter \cup {Append(u, c) : u \in shorter, c \in S}

UrlCodes == SeqsUpTo(UrlLetters, MaxUrlLen)

InitUrl ==
    /\ W \in {7, 11}
    /\ H \in {3, 5}
    /\ InitSession({{}})
    /\ numblue = MaxMarbles

\* the address is read when the page starts, on the board as constructed
OpenUrl ==
    /\ board = emptyBoard
    /\ \E u \in UrlCodes : Do(startFromUrl(Cur, <<u>>))

NextUrl == OpenUrl

SpecUrl == InitUrl /\ [][NextUrl]_vars

----------------------------------------------------------------------------
(* One lever pull, then the timer alone *)

\* boards of the smallest size: every marble meets the part on (2,1) or
\* (4,1), one row below its landing pin, and may be led to the pin (3,2)
RunLayouts ==
    { {},
      {<<2, 1, "(">>, <<4, 1, "/">>},
      {<<2, 1, "_">>, <<4, 1, ")">>},
      {<<2, 1, "\\">>, <<4, 1, "_">>},
      {<<2, 1, "\\">>, <<3, 2, "x">>, <<4, 1, "/">>},
      {<<2, 1, "\\">>, <<3, 2, "_">>, <<4, 1, "/">>},
      {<<2, 1, ")">>, <<3, 2, "(">>, <<4, 1, "x">>} }

InitRun ==
    /\ W = 7 /\ H = 3
    /\ InitSession(RunLayouts)

\* more steps than the marbles of both reservoirs can take, one after the
\* other, from the launch row to below the board
RunLimit == (totalblue + totalred + 1) * (H + 3) + 1

\* the lever is pulled once, on the machine as set up
FirstLever ==
    /\ status = STATUS_CRANK
    /\ \E c \in {BLUE, RED} : Becomes(crankLever(Cur, c))

RunTick ==
    /\ pending > 0
    /\ Len(velhistory) < RunLimit
    /\ \E t \in {timerFires(Cur)} : Becomes(t)

NextRun == FirstLever \/ RunTick

\* the browser runs every timeout that stays scheduled
SpecRun == InitRun /\ [][NextRun]_vars /\ WF_vars(RunTick)

----------------------------------------------------------------------------
(* Launches from rest, steps and backsteps *)

\* 1 while the ball is between the rows -1 and H, 0 otherwise
inFlight(s) == IF s.bally >= -1 /\ s.bally <= H THEN 1 ELSE 0

\* a lever pull while no ball is in flight
LeverAtRest ==
    /\ inFlight(Cur) = 0
    /\ Lever

NextConserve ==
    \/ LeverAtRest
    \/ Tick
    \/ StepButton
    \/ BackstepButton

SpecConserve == InitSmall /\ [][NextConserve]_vars

----------------------------------------------------------------------------
(* A page opened on a board of its own size: the ball waits on the launch row *)

\* the variables as declared (lines 504-509): the ball on the blue launch
\* row; or below the board, as a loaded page or a reset leaves it
InitWaiting ==
    /\ W = 7 /\ H = 3
    /\ board \in {boardWith(l) : l \in SmallLayouts}
    /\ ballx = D - 1 /\ bally \in {-1 - 1, H + 2} /\ velx = 1 /\ color = BLUE
    /\ status = STATUS_CRANK
    /\ velhistory = <<>> /\ bottommarbles = <<>>
    /\ numblue \in 0..MaxMarbles /\ numred = numblue
    /\ totalblue = numblue /\ totalred = numred
    /\ paused = FALSE /\ pending = 0 /\ live = FALSE /\ errors = FALSE
    /\ undoboard2 = <<>>
    /\ tool = "h"

SpecWaiting == InitWaiting /\ [][NextStepper]_vars

----------------------------------------------------------------------------
(* Repeated application of the stepper's two functions *)

RECURSIVE moveN(_, _)
moveN(s, n) == IF n = 0 THEN s ELSE moveN(move(s), n - 1)

RECURSIVE backwardsN(_, _)
backwardsN(s, n) == IF n = 0 THEN s ELSE backwardsN(backwards(s), n - 1)

\* n presses of the step button, n presses of the backstep button
RECURSIVE stepButtonN(_, _)
stepButtonN(s, n) == IF n = 0 THEN s ELSE stepButtonN(stepButton(s), n - 1)

RECURSIVE backstepButtonN(_, _)
backstepButtonN(s, n) == IF n = 0 THEN s ELSE backstepButtonN(backstepButton(s), n - 1)

\* the ball is on row -1 with the one step of a lever launch behind it
AfterLaunch == bally = -1 /\ Len(velhistory) = 1

Adjacent(p, q) ==
    \/ p[1] = q[1] /\ (p[2] = q[2] + 1 \/ q[2] = p[2] + 1)
    \/ p[2] = q[2] /\ (p[1] = q[1] + 1 \/ q[1] = p[1] + 1)

\* the cells joined to the set S through gears and gear bits that touch
RECURSIVE Reach(_, _)
Reach(b, S) ==
    LET N == S \cup {q \in Cells : isGearSym(at(b, q)) /\ \E p \in S : Adjacent(p, q)}
    IN  IF N = S THEN S ELSE Reach(b, N)

Component(b, p) == Reach(b, {p})

isGearBit(c) == c = "{" \/ c = "}"

\* the first gear bit in the order in which the flood fill lists the cells
FirstGearBit(b, all) ==
    LET I == {i \in 1..Len(all) : isGearBit(at(b, all[i]))}
    IN  IF I = {} THEN "x" ELSE at(b, all[CHOOSE i \in I : \A j \in I : i <= j])

reservoir(s, c) == IF c = BLUE THEN s.numblue ELSE s.numred

homeX(c) == IF c = BLUE THEN D - 1 ELSE W - D

homeVel(c) == IF c = BLUE THEN 1 ELSE -1

\* what C1 says is restored
BallView(s) ==
    <<s.board, s.ballx, s.bally, s.velx, s.color, s.numblue, s.numred,
      s.bottommarbles>>

----------------------------------------------------------------------------
(* Claims *)

\* C1: after a lever launch, N calls of move() followed by N calls of
\* backwards() restore the board, the ball's position, velocity and colour,
\* both reservoirs and the exit queue, for every N from 1 to MaxN.
C1_StepsThenBackstepsRestore ==
    AfterLaunch =>
        \A n \in 1..MaxN : BallView(backwardsN(moveN(Cur, n), n)) = BallView(Cur)

\* C2: a launch of a colour whose reservoir is empty changes nothing: ball,
\* velocity, colour, status, step history, reservoirs, board and the pending
\* tick are as before.
C2_EmptyLaunchIsNoOp ==
    \A c \in {BLUE, RED} : reservoir(Cur, c) <= 0 => crankLever(Cur, c) = Cur

\* a marble is rolling with a tick pending while the blue reservoir is empty
C2_Witness ==
    numblue = 0 /\ status = STATUS_ROLLING /\ pending = 1 /\ Len(velhistory) > 1

\* C3: a launch from a non-empty reservoir puts the ball on its home ramp
\* ((D-1,-2), velocity +1 for Blue; (W-D,-2), velocity -1 for Red) with the
\* step history empty, and its first step ends with status Rolling, whatever
\* the session held before.
C3_LaunchPlacesBall ==
    \A c \in {BLUE, RED} : reservoir(Cur, c) > 0 =>
        LET p == crankLeverPlace(Cur, c)
            r == crankLever(Cur, c)
        IN  /\ p.ballx = homeX(c) /\ p.bally = -2 /\ p.velx = homeVel(c)
            /\ p.color = c /\ p.velhistory = <<>>
            /\ r.ballx = homeX(c) + homeVel(c) /\ r.bally = -1
            /\ r.velx = homeVel(c) /\ r.color = c
            /\ r.velhistory = <<homeVel(c)>>
            /\ r.status = STATUS_ROLLING

\* a red marble has just been launched
C3_Witness ==
    /\ color = RED /\ ballx = W - D - 1 /\ bally = -1 /\ velx = -1
    /\ velhistory = <<-1>> /\ status = STATUS_ROLLING

\* C4: a step that brings the ball to row H+1 appends the ball's colour to
\* the exit queue; the side colour is Blue when x < W/2 and Red otherwise;
\* when that colour's reservoir is not empty the ball becomes a ball of that
\* colour on its home ramp, and neither reservoir changes in that step.
C4_ExitRecycles ==
    bally = H =>
        LET x == moveAdvance(Cur).ballx
            side == IF 2 * x < W THEN BLUE ELSE RED
            r == move(Cur)
        IN  /\ r.bottommarbles = Append(bottommarbles, color)
            /\ reservoir(Cur, side) > 0 =>
                  /\ r.ballx = homeX(side) /\ r.bally = -2
                  /\ r.velx = homeVel(side) /\ r.color = side
                  /\ r.numblue = numblue /\ r.numred = numred

\* a red marble has left on the blue side and a blue one waits on its ramp
C4_Witness ==
    /\ bally = -2 /\ ballx = D - 1 /\ color = BLUE /\ velx = 1
    /\ Len(bottommarbles) > 0 /\ Last(bottommarbles) = RED
    /\ Len(velhistory) > 0 /\ numblue > 0

\* C5: once the ball is intercepted, a timer tick, a manual step, a speed
\* change or the pause button leaves the ball where it is and the status
\* Intercepted.
C5_InterceptedStays ==
    [][(status = STATUS_INTERCEPTED
            /\ (Tick \/ StepButton \/ SpeedButton \/ PauseButton))
        => (ballx' = ballx /\ bally' = bally /\ status' = status)]_vars

\* C6: once the status is BlueEmpty or RedEmpty, a timer tick or a manual
\* step changes neither the ball's position, nor the step history, the
\* reservoirs, the exit queue or the status.
C6_EmptyStays ==
    [][((status = STATUS_NOBLUE \/ status = STATUS_NORED) /\ (Tick \/ StepButton))
        => UNCHANGED <<ballx, bally, velhistory, numblue, numred,
                       bottommarbles, status>>]_vars

\* C7: the ball's x stays within 0 <= x < W, and move() never takes its
\* out-of-board diagnostic branches.
C7_BallInsideBoard == ballx >= 0 /\ ballx < W /\ ~errors

\* C8: velocityX is one of -1, 0, +1.
C8_VelocityIsUnit == velx \in {-1, 0, 1}

\* C9: toggleGear applied twice with the same seed leaves every cell of the
\* board as it was, for every seed coordinate.
C9_ToggleTwiceRestores ==
    \A p \in Cells :
        toggleGear(toggleGear(board, p[1], p[2]), p[1], p[2]) = board

\* the hand tool has turned a group that holds a gear and a gear bit
C9_Witness ==
    \E p \in Cells : \E q \in Cells :
        /\ at(board, p) = "+" /\ isGearBit(at(board, q))
        /\ q \in Component(board, p)

\* C10: after fixGearGroup(x0, y0), called on a gear or gear bit, every gear
\* bit of the 4-connected gear component of (x0, y0) has one orientation:
\* that of (x0, y0) if it is a gear bit, otherwise that of the first gear bit
\* found; every other cell is unchanged, and a second call changes nothing.
C10_FixGearGroup ==
    \A p \in Cells : isGearSym(at(board, p)) =>
        LET r == fixGearGroup(board, p[1], p[2])
            comp == Component(board, p)
            target == IF isGearBit(at(board, p)) THEN at(board, p)
                      ELSE FirstGearBit(board, floodFill(board, p[1], p[2]))
        IN  /\ \A q \in Cells :
                  at(r, q) = IF q \in comp /\ isGearBit(at(board, q))
                             THEN target ELSE at(board, q)
            /\ fixGearGroup(r, p[1], p[2]) = r

\* a gear tool has joined gear bits that disagreed into one group, and the
\* board still holds a group whose gear bits disagree
C10_Witness ==
    /\ tool = "*"
    /\ \E p \in Cells : \E q \in Cells :
          /\ at(board, p) = "{" /\ at(board, q) = "}"
          /\ q \in Component(board, p)

----------------------------------------------------------------------------
(* Topology *)

\* C11: getEmpty answers OutOfPlay exactly when x+y < D, or (W-1-x)+y < D, or
\* (x-y-D > 2 and (W-x)-D-1-y > 2), or (x is not the centre column and
\* y >= H-1); every other cell is a GearPin when x mod 2 = y mod 2 and a
\* FullPin otherwise.
C11_CellKind ==
    \A p \in Cells :
        LET x == p[1]
            y == p[2]
            out == \/ x + y < D
                   \/ (W - 1 - x) + y < D
                   \/ (x - y - D > 2 /\ (W - x) - D - 1 - y > 2)
                   \/ (2 * x # W - 1 /\ y >= H - 1)
        IN  cellKind(x, y) = IF out THEN "OutOfPlay"
                             ELSE IF x % 2 = y % 2 THEN "GearPin" ELSE "FullPin"

\* on a wide board a part stands on a full pin while the notch under the top
\* edge, a cut corner and the bottom row are out of play
C11_Witness ==
    /\ W = 15 /\ H = 5
    /\ cellKind(7, 0) = "OutOfPlay" /\ cellKind(0, 2) = "OutOfPlay"
    /\ cellKind(3, 4) = "OutOfPlay" /\ cellKind(7, 4) = "FullPin"
    /\ cellKind(4, 0) = "GearPin" /\ at(board, <<4, 0>>) = "*"
    /\ cellKind(4, 1) = "FullPin" /\ at(board, <<4, 1>>) = "/"

\* C12: the topology is mirror symmetric: getEmpty(x, y) and
\* getEmpty(W-1-x, y) are the same kind, for every board size and cell.
C12_MirrorSymmetric ==
    \A p \in Cells : cellKind(p[1], p[2]) = cellKind(W - 1 - p[1], p[2])

\* the default 11x11 board, whose marked pins mirror each other, after an edit
C12_Witness ==
    /\ W = 11 /\ H = 11
    /\ getEmpty(2, 3) = "V" /\ getEmpty(8, 3) = "V"
    /\ cellKind(1, 0) = "OutOfPlay" /\ cellKind(9, 0) = "OutOfPlay"
    /\ at(board, <<3, 0>>) = "\\"

----------------------------------------------------------------------------
(* Editing *)

FullPinOnlyParts == {"/", "\\", "x", "_", "(", ")", "{", "}"}

LegalAt(b, p) ==
    LET k == cellKind(p[1], p[2])
    IN  /\ k = "OutOfPlay" => at(b, p) = " "
        /\ k = "GearPin" => at(b, p) \in {".", "*", "+"}

Legal(b) == \A p \in Cells : LegalAt(b, p)

\* b is legal in every row in which it differs from the board
LegalChange(b) ==
    \/ b = board
    \/ \A y \in 0..(H - 1) :
          b[y] = board[y] \/ \A x \in 0..(W - 1) : LegalAt(b, <<x, y>>)

\* the tool t cannot be placed on the pin p
Rejected(t, p) ==
    \/ cellKind(p[1], p[2]) = "OutOfPlay" /\ t \notin {"h", "o", "O"}
    \/ cellKind(p[1], p[2]) = "GearPin" /\ t \in FullPinOnlyParts

\* C13 as amended: the board stays legal under every placement attempt with
\* any tool at any cell (mouse press, left click, drag), and a press or a
\* drag with a part the pin cannot take leaves the board unchanged.
C13_EditsKeepBoardLegal ==
    /\ Legal(board)
    /\ \A t \in Tools : \A p \in Cells :
          LET s == [Cur EXCEPT !.tool = t]
              pressed == activateTool(s, p[1], p[2]).board
              dragged == dragEnter(s, p[1], p[2]).board
              clicked == leftClick(s, p[1], p[2]).board
          IN  /\ LegalChange(pressed) /\ LegalChange(dragged) /\ LegalChange(clicked)
              /\ Rejected(t, p) => (pressed = board /\ dragged = board)

\* gears and parts have been placed, and a gear stands on a gear-only pin
\* under a selected ramp tool
C13_Witness ==
    /\ tool = "/"
    /\ \E p \in Cells : cellKind(p[1], p[2]) = "GearPin" /\ at(board, p) = "*"
    /\ \E p \in Cells : cellKind(p[1], p[2]) = "FullPin" /\ at(board, p) = "{"

\* C13: as stated, the click on a gear-only pin with a part the pin cannot
\* take also leaves the board unchanged.
C13_RejectedClickChangesNothing ==
    \A t \in Tools : \A p \in Cells :
        Rejected(t, p) => gearPinClick([Cur EXCEPT !.tool = t], p[1], p[2]).board = board

----------------------------------------------------------------------------
(* Codecs *)

\* the part kind of a symbol: the two renderings of a gear are one kind
partKind(c) == IF c = "+" THEN "*" ELSE c

\* C14: for every legal board, loadFromText(saveToText(board)) equals the
\* board cell for cell.
C14_TextRoundTrip ==
    Legal(board) => loadFromText(saveToText(board)) = board

\* a legal board with a turned gear, a crossover, an interceptor, a bit and a
\* part placed by hand
C14_Witness ==
    /\ Legal(board)
    /\ at(board, <<6, 2>>) = "+" /\ at(board, <<5, 2>>) = "x"
    /\ at(board, <<7, 2>>) = "_" /\ at(board, <<6, 1>>) = "("
    /\ at(board, <<3, 0>>) = "{" /\ at(board, <<4, 0>>) = "*"

\* C15: for every legal board, loadFromUrl(toUrl(board)) holds the same part
\* kind as the board at every coordinate.
C15_UrlRoundTrip ==
    Legal(board) =>
        LET decoded == loadFromUrl(Cur, toUrl(Cur)).board
        IN  \A p \in Cells : partKind(at(decoded, p)) = partKind(at(board, p))

\* the inputs parseState refuses: a field too few, a field too many, another
\* width, another height, and an empty board text
RefusedStates ==
    LET text == saveToText(board)
    IN  { <<W, H, numblue>>, <<W, H, numblue, text, text>>,
          <<W + 4, H, numblue, text>>, <<W, H + 2, numblue, text>>,
          <<W, H, numblue, <<>> >> }

\* C16: when parseState rejects its input (wrong number of fields, other W or
\* H, missing board text) it returns false and leaves the board and the four
\* marble counts unchanged.
C16_RejectedStateChangesNothing ==
    \A f \in RefusedStates :
        LET r == parseState(Cur, f)
        IN  /\ ~r.ok
            /\ r.st.board = board
            /\ r.st.numblue = numblue /\ r.st.numred = numred
            /\ r.st.totalblue = totalblue /\ r.st.totalred = totalred

----------------------------------------------------------------------------
(* Timer and controls *)

\* C17: whatever the order of lever pulls, pause toggles, steps, backsteps,
\* speed changes, ball removals, manual ball placements and timer firings,
\* at most one tick is scheduled, and none while the simulation is paused
C17_OneTickNoneWhilePaused ==
    /\ pending >= 0 /\ pending <= 1
    /\ paused => pending = 0

\* a marble placed by hand is waiting for its first tick
C17_Witness ==
    /\ pending = 1 /\ ~paused
    /\ tool \in BallTools /\ velhistory = <<>>
    /\ <<ballx, bally>> \in BallSpots
    /\ status = STATUS_ROLLING

\* C18: the pause button cancels the pending tick when it pauses and only
\* schedules the next tick when it resumes; either way the board, the ball,
\* the reservoirs, the step history, the exit queue and the status stay as
\* they were
C18_PauseKeepsSimulationState ==
    LET r == pauseButton(Cur)
    IN  /\ r.paused = ~paused
        /\ r.paused => r.pending = 0
        /\ r.board = board
        /\ r.ballx = ballx /\ r.bally = bally /\ r.velx = velx /\ r.color = color
        /\ r.numblue = numblue /\ r.numred = numred
        /\ r.velhistory = velhistory
        /\ r.bottommarbles = bottommarbles
        /\ r.status = status

\* C19: removeBall in any state empties the step history, sets the status
\* to AwaitingLaunch, leaves no tick scheduled and the ball off the board,
\* and keeps the board, the reservoirs, the totals and the exit queue
C19_RemoveBall ==
    LET r == removeBall(Cur)
    IN  /\ r.velhistory = <<>>
        /\ r.status = STATUS_CRANK
        /\ r.pending = 0
        /\ ~inBoard(r.ballx, r.bally)
        /\ r.board = board
        /\ r.numblue = numblue /\ r.numred = numred
        /\ r.totalblue = totalblue /\ r.totalred = totalred
        /\ r.bottommarbles = bottommarbles

\* the ball was removed after a marble had left its reservoir
C19_Witness ==
    /\ bally = H + 2 /\ status = STATUS_CRANK /\ velhistory = <<>>
    /\ pending = 0
    /\ numblue < totalblue \/ numred < totalred

\* C20: move() with the ball on the launch row and the reservoir of its
\* colour empty sets the status to BlueEmpty or RedEmpty and moves nothing:
\* position, velocity, step history, reservoirs and board stay as they were
C20_EmptyLaunchRowNoMovement ==
    (bally = -2 /\ reservoir(Cur, color) <= 0) =>
        LET r == move(Cur)
        IN  /\ r.status = (IF color = BLUE THEN STATUS_NOBLUE ELSE STATUS_NORED)
            /\ r.ballx = ballx /\ r.bally = bally /\ r.velx = velx
            /\ r.velhistory = velhistory
            /\ r.numblue = numblue /\ r.numred = numred
            /\ r.board = board

----------------------------------------------------------------------------
(* Parts under the ball *)

\* the ball as move() has advanced it, before the part in its new cell acts:
\* its cell, and the velocity it comes in with
incoming(s) == moveAdvance(s)

entersBoard(s) == inBoard(incoming(s).ballx, incoming(s).bally)

enteredCell(s) == <<incoming(s).ballx, incoming(s).bally>>

\* the part in the cell the ball is about to enter, "" outside the board
enteredPart(s) == IF entersBoard(s) THEN at(s.board, enteredCell(s)) ELSE ""

\* a second ball coming to the same cell the same way over the board of s
secondBall(s, first) ==
    [s EXCEPT !.ballx = first.ballx, !.bally = first.bally, !.velx = first.velx]

\* C21: move() into a cell holding "(" (bit pointing left) turns the cell
\* into ")" and sets velx to +1; into ")" it turns the cell into "(" and sets
\* velx to -1; a second ball entering the same bit leaves the other way
C21_BitFlipsAndSteers ==
    LET c == enteredPart(Cur)
        q == enteredCell(Cur)
        r == move(Cur)
        r2 == move(secondBall(r, Cur))
    IN  (c = "(" \/ c = ")") =>
            /\ r.board = setCell(board, q[1], q[2], IF c = "(" THEN ")" ELSE "(")
            /\ r.velx = (IF c = "(" THEN 1 ELSE -1)
            /\ <<r.ballx, r.bally>> = q
            /\ r2.velx = -r.velx
            /\ r2.board = board

\* a ball launched by the lever has entered a bit pointing left
C21_Witness ==
    /\ ballx = 3 /\ bally = 0 /\ Len(velhistory) = 2
    /\ at(board, <<3, 0>>) = ")" /\ velx = 1

\* C22, as the code has it: a ball entering a bit pointing left "(" gets
\* velx = +1 and turns it into ")"; a second ball entering the same cell gets
\* velx = -1 and turns it back into "("
C22_BitLeftSendsRightThenLeft ==
    LET q == enteredCell(Cur)
        r == move(Cur)
        r2 == move(secondBall(r, Cur))
    IN  enteredPart(Cur) = "(" =>
            /\ r.velx = 1 /\ at(r.board, q) = ")"
            /\ r2.velx = -1 /\ at(r2.board, q) = "("

\* a second ball has entered the bit that started pointing left
C22_Witness ==
    /\ at(board, <<4, 1>>) = "/"
    /\ ballx = 3 /\ bally = 0 /\ Len(velhistory) = 2
    /\ at(board, <<3, 0>>) = "(" /\ velx = -1

\* C22 as stated: the first ball into a bit pointing left gets velx = -1 and
\* the second gets velx = +1
C22_BitLeftSendsLeftThenRight ==
    LET q == enteredCell(Cur)
        r == move(Cur)
        r2 == move(secondBall(r, Cur))
    IN  enteredPart(Cur) = "(" =>
            /\ r.velx = -1 /\ at(r.board, q) = ")"
            /\ r2.velx = 1 /\ at(r2.board, q) = "("

\* C23: move() into a gear bit sets velx from the orientation the gear bit
\* had before the step (+1 for "{", -1 for "}") and flips every gear and
\* gear bit of the 4-connected gear component of that cell exactly once
C23_GearBitSteersAndTurnsGroup ==
    LET c == enteredPart(Cur)
        q == enteredCell(Cur)
        r == move(Cur)
        comp == Component(board, q)
    IN  isGearBit(c) =>
            /\ r.velx = (IF c = "{" THEN 1 ELSE -1)
            /\ \A p \in Cells :
                  at(r.board, p) = IF p \in comp THEN flipGear(at(board, p))
                                                ELSE at(board, p)

\* the ball has entered a gear bit joined to a gear and a second gear bit,
\* while a gear group away from it stands as it was placed
C23_Witness ==
    /\ ballx = 3 /\ bally = 0 /\ Len(velhistory) = 2
    /\ at(board, <<3, 0>>) = "}" /\ velx = 1
    /\ at(board, <<3, 1>>) = "+" /\ at(board, <<4, 1>>) = "}"
    /\ at(board, <<7, 0>>) = "}" /\ at(board, <<8, 0>>) = "*"

\* the cells in which two boards differ
Changed(b1, b2) == IF b1 = b2 THEN {} ELSE {p \in Cells : at(b1, p) # at(b2, p)}

\* the cells a ball may turn when it is on, or comes to, the cell q holding c
Turned(b, q, c) ==
    IF c = "(" \/ c = ")" THEN {q}
    ELSE IF isGearBit(c) THEN {p \in Component(b, q) : isGearSym(at(b, p))}
    ELSE {}

\* C24: move() changes at most the bit the ball enters, or the gears and gear
\* bits of the gear component of the gear bit it enters; backwards() changes
\* at most the same around the cell the ball stands on; neither changes a
\* ramp, a crossover, an interceptor, an empty cell or a gear outside that
\* component; and a ball entering a ramp leaves with velx +1 ("\") or -1 ("/")
C24_OnlyBitsAndGroupsChange ==
    LET c == enteredPart(Cur)
        r == move(Cur)
        here == IF inBoard(ballx, bally) THEN at(board, <<ballx, bally>>) ELSE ""
        bk == backwards(Cur)
        chm == Changed(board, r.board)
        chb == Changed(board, bk.board)
    IN  /\ chm \subseteq Turned(board, enteredCell(Cur), c)
        /\ chb \subseteq Turned(board, <<ballx, bally>>, here)
        /\ \A p \in chm \cup chb :
              at(board, p) \notin {"\\", "/", "x", "_", " ", ".", "v", "V"}
        /\ c = "\\" => r.velx = 1
        /\ c = "/" => r.velx = -1

\* the ball stands on a ramp going right that it came to from the right,
\* next to the bit it has passed
C24_Witness ==
    /\ ballx = 2 /\ bally = 1 /\ Len(velhistory) = 3
    /\ at(board, <<2, 1>>) = "\\" /\ velx = 1
    /\ at(board, <<3, 0>>) = "("

\* C25: with the ball on a row from -1 to H-1, move() gives a blue and a red
\* ball the same position, the same velocity and the same board, unless the
\* cell entered is a crossover and the ball comes in with velocity 0: then
\* blue leaves with +1 and red with -1
C25_ColourOnlyAtCrossover ==
    (bally >= -1 /\ bally < H) =>
        LET b == move([Cur EXCEPT !.color = BLUE])
            r == move([Cur EXCEPT !.color = RED])
        IN  /\ b.ballx = r.ballx /\ b.bally = r.bally /\ b.board = r.board
            /\ IF enteredPart(Cur) = "x" /\ incoming(Cur).velx = 0
               THEN b.velx = 1 /\ r.velx = -1
               ELSE b.velx = r.velx

\* a blue ball has fallen straight into a crossover and leaves to the right
C25_Witness ==
    /\ ballx = 3 /\ bally = 2 /\ at(board, <<3, 2>>) = "x"
    /\ Len(velhistory) = 4 /\ Last(velhistory) = 0
    /\ color = BLUE /\ velx = 1

----------------------------------------------------------------------------
(* Stepping back *)

\* the ball has left the board: it is parked on or below row H+1, or it was
\* recycled to the launch row and the step history still knows of it
hasExited(s) == s.bally >= H + 1 \/ (s.bally = -2 /\ Len(s.velhistory) > 0)

\* C26: when the ball has exited, one backwards() removes exactly the most
\* recent entry of the exit queue and puts the ball on row H with that
\* entry's colour and the x it had before its exit step (the exit step
\* records minus that x in the step history)
C26_BackstepRevivesExitedBall ==
    (hasExited(Cur) /\ Len(velhistory) > 0 /\ Len(bottommarbles) > 0) =>
        LET r == backwards(Cur)
        IN  /\ r.bottommarbles = Front(bottommarbles)
            /\ r.color = Last(bottommarbles)
            /\ r.bally = H
            /\ bally <= H + 1 => r.ballx = -Last(velhistory)

\* C27: backwards() with an empty step history changes nothing; it never
\* takes the ball above the launch row; and after a lever launch no number
\* of steps followed by backsteps leaves the exit queue shorter than it was
\* when the lever was pulled
C27_ReversalStopsAtLever ==
    /\ Len(velhistory) = 0 => backwards(Cur) = Cur
    /\ backwards(Cur).bally >= -2
    /\ \A c \in {BLUE, RED} : reservoir(Cur, c) > 0 =>
          \A n \in 0..MaxN : \A m \in 0..MaxN :
              Len(backstepButtonN(stepButtonN(crankLever(Cur, c), n), m).bottommarbles)
                  >= Len(bottommarbles)

----------------------------------------------------------------------------
(* Gear groups *)

\* C28: toggleGear(x0, y0), called on a gear or gear bit, flips exactly the
\* cells joined to (x0, y0) through north, east, south and west steps over
\* gears and gear bits, lists each of them once, and leaves every other cell
\* as it was: the result is a function of that set of cells alone, whatever
\* the order in which the stack visits them
C28_ToggleFlipsComponentOnce ==
    \A p \in Cells : isGearSym(at(board, p)) =>
        LET all == floodFill(board, p[1], p[2])
            comp == Component(board, p)
        IN  /\ {all[i] : i \in 1..Len(all)} = comp
            /\ Len(all) = Cardinality(comp)
            /\ toggleGear(board, p[1], p[2]) =
                   [y \in 0..(H - 1) |-> [x \in 0..(W - 1) |->
                       IF <<x, y>> \in comp THEN flipGear(board[y][x])
                                              ELSE board[y][x]]]

\* the hand tool has turned a group of three or more cells that runs north
\* as well as east, and a second group stands apart from it
C28_Witness ==
    \E p \in Cells :
        /\ at(board, p) = "+"
        /\ Cardinality(Component(board, p)) >= 3
        /\ \E q \in Component(board, p) : q[2] < p[2]
        /\ at(board, <<8, 0>>) = "*" /\ <<8, 0>> \notin Component(board, p)

----------------------------------------------------------------------------
(* The marked pins *)

\* the characters toUrl's loop writes for the cell p of the board b
urlCharsOf(b, p) ==
    LET i == p[2] * W + p[1]
        rest == toUrlCells(b, i + 1)
        from == toUrlCells(b, i)
    IN  SubSeq(from, 1, Len(from) - Len(rest))

\* what a press with the part tool t leaves on the pin p when the pin takes it
pressedPart(t, p) ==
    LET b == IF at(board, p) = "+" THEN "*" ELSE at(board, p)
    IN  IF b = t THEN getEmpty(p[1], p[2]) ELSE t

\* C29, as the code has it: on the 11 x 11 board the four marked pins are
\* full pins: a press or a drag places every part on them (a press with the
\* part already there removes it), and toUrl writes one character for each
\* of them, whatever it holds
C29_MarkedPinsAreFullPins ==
    (W = 11 /\ H = 11) =>
        \A p \in MarkedPins :
            /\ getEmpty(p[1], p[2]) = "V"
            /\ cellKind(p[1], p[2]) = "FullPin"
            /\ \A t \in FullPinOnlyParts \cup {"*"} :
                  LET s == [Cur EXCEPT !.tool = t]
                  IN  /\ at(activateTool(s, p[1], p[2]).board, p) = pressedPart(t, p)
                      /\ at(dragEnter(s, p[1], p[2]).board, p) = t
            /\ urlCharsOf(board, p) = <<urlChar(at(board, p))>>

\* a ramp and a gear bit stand on marked pins
C29_Witness ==
    /\ W = 11 /\ H = 11
    /\ at(board, <<2, 3>>) = "/"
    /\ isGearBit(at(board, <<8, 7>>))

\* C29 as stated: the marked pins follow the rules of gear-only pins: a part
\* other than a gear is refused, and toUrl writes a character for a gear only
C29_MarkedPinsAreGearPins ==
    (W = 11 /\ H = 11) =>
        \A p \in MarkedPins :
            /\ cellKind(p[1], p[2]) = "GearPin"
            /\ \A t \in FullPinOnlyParts :
                  LET s == [Cur EXCEPT !.tool = t]
                  IN  /\ activateTool(s, p[1], p[2]).board = board
                      /\ dragEnter(s, p[1], p[2]).board = board
            /\ urlCharsOf(board, p) =
                   IF at(board, p) \in {"*", "+"} THEN <<"g">> ELSE <<>>

----------------------------------------------------------------------------
(* Decoders on arbitrary input *)

\* the text t with the character c at position i
withChar(t, i, c) == [j \in 1..Len(t) |-> IF j = i THEN c ELSE t[j]]

\* part symbols, a placeholder, a url letter and a character of no alphabet
StrayChars == {"/", "{", "*", ".", "g", "q"}

\* texts of the board's size: the board's own text with one character
\* replaced, and that text cut short
TextInputs ==
    LET t == saveToText(board)
    IN  {withChar(t, p[2] * (W + 1) + p[1] + 1, c) : p \in Cells, c \in StrayChars}
        \cup {SubSeq(t, 1, n) : n \in {1, W, W + 1}}

\* url codes: the board's own code as toUrl's loop writes it, with one
\* character replaced, cut short, or with a character added in front
UrlInputs ==
    LET u == toUrlCells(board, 0)
    IN  {withChar(u, i, c) : i \in 1..Len(u), c \in StrayChars}
        \cup {SubSeq(u, 1, n) : n \in {0, 1, W}}
        \cup {<<c>> \o u : c \in StrayChars}

\* C30: whatever string loadFromUrl or loadFromText is given, every cell of
\* the board it leaves holds a symbol legal for its kind: nothing on an
\* out-of-play cell, a gear or nothing on a gear-only pin
C30_DecodedBoardsAreLegal ==
    /\ \A u \in UrlInputs : Legal(loadFromUrl(Cur, <<u>>).board)
    /\ \A t \in TextInputs : Legal(loadFromText(t))

----------------------------------------------------------------------------
(* The url decoder on arbitrary codes *)

isFullPin(p) == cellKind(p[1], p[2]) = "FullPin"

\* the place of the full pin p among the full pins, row by row
fullPinRank(p) ==
    Cardinality({q \in Cells : /\ isFullPin(q)
                               /\ q[2] < p[2] \/ (q[2] = p[2] /\ q[1] <= p[1])})

\* the code with every 'z' written as nine and every 'f' as three 'e'
RECURSIVE Expand(_)
Expand(u) ==
    IF u = <<>> THEN <<>>
    ELSE (IF u[1] = "z" THEN [j \in 1..9 |-> "e"]
          ELSE IF u[1] = "f" THEN [j \in 1..3 |-> "e"]
          ELSE <<u[1]>>) \o Expand(Tail(u))

PartLetters == {"r", "l", "i", "x", "0", "1", "a", "b", "c"}

\* what a code without 'g' is to leave on the pin p
expectedAt(u, p) ==
    LET e == Expand(u)
        j == fullPinRank(p)
    IN  IF isFullPin(p) /\ j <= Len(e) /\ e[j] \in PartLetters
        THEN partChar(e[j], p[1], p[2])
        ELSE getEmpty(p[1], p[2])

gFree(u) == \A i \in 1..Len(u) : u[i] # "g"

\* every symbol a cell of a board can hold
Symbols == {" ", ".", "v", "V", "*", "+", "(", ")", "{", "}", "/", "\\", "x", "_"}

\* C31: for every code, loadFromUrl fills all H x W cells with legal
\* symbols; for a code that holds no 'g', the k-th full pin in row-major order
\* gets the part of the k-th character of the code with each 'z' read as
\* nine and each 'f' as three empty full pins, characters beyond the last
\* full pin are ignored, and a full pin whose character is missing or is no
\* part letter gets getEmpty; every other cell gets getEmpty.  (The decoder
\* reads nothing but the code, W and H, so the codes are tried on the page
\* as it is first opened.)
C31_UrlDecoderFillsBoard ==
    board = emptyBoard =>
        \A u \in UrlCodes :
            LET b == loadFromUrl(Cur, <<u>>).board
            IN  /\ \A p \in Cells : at(b, p) \in Symbols
                /\ Legal(b)
                /\ gFree(u) => \A p \in Cells : at(b, p) = expectedAt(u, p)

\* the page was opened with a code of a 'z' and a ramp: the ramp stands on
\* the tenth full pin, after nine empty ones
C31_Witness ==
    /\ W = 11 /\ H = 5
    /\ \E p \in Cells :
          /\ fullPinRank(p) = 10 /\ at(board, p) = "/"
          /\ \A q \in Cells : q # p => at(board, q) = getEmpty(q[1], q[2])

----------------------------------------------------------------------------
(* A run left to the timer *)

\* no tick is scheduled and the ball is intercepted or out of marbles
Halted ==
    /\ pending = 0
    /\ status \in {STATUS_INTERCEPTED, STATUS_NOBLUE, STATUS_NORED}

\* within the steps that lead from its row to the exit row, the ball is
\* intercepted or joins the exit queue
DoneInTime ==
    (pending > 0 /\ bally >= -2 /\ bally <= H) =>
        \E k \in 1..(H + 1 - bally) :
            LET t == moveN(Cur, k)
            IN  \/ t.status = STATUS_INTERCEPTED
                \/ Len(t.bottommarbles) = Len(bottommarbles) + 1

\* C32: after a lever launch with finite reservoirs and no further input,
\* the ticks lead to a state with no tick scheduled and the ball intercepted
\* or out of marbles; and every ball is intercepted or on the exit row within
\* H+3 steps of the launch row (H+1-y steps from row y).
C32_RunStops ==
    /\ [](DoneInTime)
    /\ (status # STATUS_CRANK) ~> Halted

\* the run of two marbles has ended below the board, both in the exit queue
C32_Witness ==
    /\ Halted
    /\ status # STATUS_INTERCEPTED
    /\ Len(bottommarbles) = 2
    /\ bally = H + 2
    /\ Len(velhistory) = 2 * (H + 3) + 1

----------------------------------------------------------------------------
(* Counting the marbles *)

\* C33: with launches made only while no ball is in flight, steps and
\* backsteps, the marbles in the two reservoirs, in the exit queue and in
\* flight always add up to the two totals.
C33_MarblesConserved ==
    numblue + numred + Len(bottommarbles) + inFlight(Cur) = totalblue + totalred

\* C34: from a state with both reservoirs full (a ball may wait on the
\* launch row, with totals of zero as well), launches, steps, backsteps,
\* removing the ball and reset keep each reservoir between 0 and its total.
C34_ReservoirsWithinTotals ==
    /\ 0 <= numblue /\ numblue <= totalblue
    /\ 0 <= numred /\ numred <= totalred

----------------------------------------------------------------------------
(* A step after a backstep *)

\* the board, the ball's place and colour, the reservoirs and the exit queue
Marbles(s) ==
    <<s.board, s.ballx, s.bally, s.color, s.numblue, s.numred, s.bottommarbles>>

\* backwards() has taken a step back: it has used an entry of the history
tookEffect(s) == Len(backwards(s).velhistory) < Len(s.velhistory)

\* C35: whenever a backstep takes effect, a step made right after it brings
\* back the board, the ball's place and colour, the reservoirs and the exit
\* queue that held before the backstep.
C35_StepRedoesBackstep ==
    tookEffect(Cur) => Marbles(move(backwards(Cur))) = Marbles(Cur)

----------------------------------------------------------------------------
(* Gear groups under the stepper *)

\* in every gear group of the board b all gear bits point the same way
GearConsistent(b) ==
    LET bits == {p \in Cells : isGearBit(at(b, p))}
    IN  \A p \in bits :
            \A q \in Component(b, p) \cap bits : at(b, q) = at(b, p)

\* C36: if all gear bits of every 4-connected gear group point the same
\* way, they still do after a step and after a backstep, so that a ball meets
\* the same orientation at every gear bit of a group.  (A step that leaves
\* the board as it is has nothing to show.)
C36_StepperKeepsGroupsConsistent ==
    \A b \in {move(Cur).board, backwards(Cur).board} \ {board} :
        GearConsistent(board) => GearConsistent(b)

\* the ball has turned the group of two gear bits and a gear twice, through
\* one gear bit and then through the other
C36_Witness ==
    /\ ballx = 4 /\ bally = 1 /\ Len(velhistory) = 3
    /\ at(board, <<3, 0>>) = "{" /\ at(board, <<4, 1>>) = "{"
    /\ at(board, <<3, 1>>) = "*"
    /\ <<4, 1>> \in Component(board, <<3, 0>>)
    /\ GearConsistent(board)

----------------------------------------------------------------------------
(* Restart *)

\* the lever has just been pulled with both reservoirs full: the launched
\* marble is the only one missing, and the board is the one crankLever kept
FullLaunch ==
    /\ AfterLaunch
    /\ undoboard2 = board
    /\ reservoir(Cur, color) = reservoir([numblue |-> totalblue, numred |-> totalred], color) - 1
    /\ reservoir(Cur, 1 - color) = reservoir([numblue |-> totalblue, numred |-> totalred], 1 - color)

\* the machine s is set up again with the board b
Restarted(s, b) ==
    /\ s.board = b
    /\ s.numblue = s.totalblue /\ s.numred = s.totalred
    /\ s.bottommarbles = <<>>
    /\ s.status = STATUS_CRANK

\* C37: after a lever pull made with both reservoirs full and a number of
\* steps, restart brings back the board of that lever pull, fills both
\* reservoirs, empties the exit queue and sets the status to AwaitingLaunch;
\* and so does a second press of restart right after the first.
C37_RestartRestoresLaunchBoard ==
    FullLaunch =>
        \A n \in 0..MaxRestartSteps :
            LET r1 == restartButton(moveN(Cur, n))
                r2 == restartButton(r1)
            IN  Restarted(r1, board) /\ Restarted(r2, board)

=============================================================================
